---- MODULE Spec2Model ----
(***************************************************************************)
(* Model of the payment engine of src/main.rs: main, import_csv,           *)
(* process_transaction and export_accounts.                                *)
(*                                                                         *)
(* Decimal amounts are exact fixed-point numbers; they are modelled as     *)
(* integers counting units of the smallest fraction, on which +, - and >=  *)
(* are exact as they are for rust_decimal inside its 96-bit range.         *)
(* Option<Decimal> is a sequence of length 0 (None) or 1 (Some).           *)
(* A panic (failed assert!, unwrap of None/Err) ends the process: the      *)
(* model moves to pc = "panicked", from which no action is enabled.        *)
(***************************************************************************)
EXTENDS Integers, Sequences, FiniteSets, TLC

\* ---------------------------------------------------------------- bounds
MaxAmount == 2
MaxRecords == 4

\* ClientId (u16) and TransactionId (u32): two of each give distinct owners
\* and distinct deposits
ClientIds == {1, 2}
TransactionIds == {1, 2}
\* negative and zero amounts parse as Decimal just like positive ones
Decimals == (0 - 1)..MaxAmount

None == <<>>
Some(v) == <<v>>
unwrap(o) == o[1]
OptDecimals == {None} \cup {Some(v) : v \in Decimals}

TransactionType == {"Deposit", "Withdrawal", "Dispute", "Resolve", "Chargeback"}
TransactionStatus == {"OK", "Disputed", "Chargedback"}

\* the struct Transaction
Transaction ==
  [tx_type : TransactionType, client_id : ClientIds, tx_id : TransactionIds,
   amount : OptDecimals, status : TransactionStatus]

\* the value Transaction::try_from builds for a well-formed record
NewTransaction(ty, c, id, amt) ==
  [tx_type |-> ty, client_id |-> c, tx_id |-> id, amount |-> amt, status |-> "OK"]

\* a fresh account that starts frozen
NewAccount_locked(c) ==
  [client_id |-> c, num_transactions |-> 0, funds_available |-> 0,
   funds_held |-> 0, funds_total |-> 0, locked |-> TRUE]

\* the account import_csv inserts for a client it has not seen
NewAccount(c) ==
  [client_id |-> c, num_transactions |-> 0, funds_available |-> 0,
   funds_held |-> 0, funds_total |-> 0, locked |-> FALSE]

\* placeholder held by `transaction` before the first record is read
NoTransaction == [tx_type |-> "none"]

\* placeholder held by `result` while try_from has not been called
NoResult == [kind |-> "none"]

VARIABLES
  pc,                \* "main", "import", "done", "failed", "panicked";
                     \* "try_from", "converted" when try_from is run alone
  accounts,          \* PaymentEngine.accounts: ClientId -> Account
  transactions,      \* PaymentEngine.transactions: TransactionId -> Transaction
  transaction,       \* the record import_csv handed to process_transaction last
  num_records,       \* how many records import_csv has read
  prev_accounts,     \* accounts as they were before the last record was read
  prev_transactions, \* transactions as they were before the last record was read
  error,             \* the PaymentErrors value main returned, "none" if none
  output,            \* what export_accounts printed: <<>> or <<header, rows>>
  record,            \* the StringRecord given to Transaction::try_from
  result             \* what Transaction::try_from made of it

vars == <<pc, accounts, transactions, transaction, num_records,
          prev_accounts, prev_transactions, error, output, record, result>>

EmptyMap == [x \in {} |-> 0]

\* PaymentEngine::new, before main has looked at its arguments
Init ==
  /\ pc = "main"
  /\ accounts = EmptyMap
  /\ transactions = EmptyMap
  /\ transaction = NoTransaction
  /\ num_records = 0
  /\ prev_accounts = EmptyMap
  /\ prev_transactions = EmptyMap
  /\ error = "none"
  /\ output = <<>>
  /\ record = <<>>
  /\ result = NoResult

\* ------------------------------------------------- process_transaction
\* the increment left out
CountTransaction_forgotten(acct) == acct

\* account_ref.num_transactions += 1
CountTransaction(acct) == [acct EXCEPT !.num_transactions = @ + 1]

\* the assertion compiled out
DepositAssert_off(txs, t) == TRUE

\* assert!(!self.transactions.contains_key(&transaction.tx_id))
DepositAssert(txs, t) == t.tx_id \notin DOMAIN txs

\* a deposit that forgets funds_total
DepositFunds_availableOnly(acct, amount) ==
  [acct EXCEPT !.funds_available = @ + amount]

\* funds_available += amount; funds_total += amount
DepositFunds(acct, amount) ==
  [acct EXCEPT !.funds_available = @ + amount, !.funds_total = @ + amount]

\* the deposit is never stored
InsertTransaction_dropped(txs, t) == txs

\* self.transactions.insert(transaction.tx_id, transaction)
InsertTransaction(txs, t) ==
  [id \in DOMAIN txs \cup {t.tx_id} |-> IF id = t.tx_id THEN t ELSE txs[id]]

\* a frozen account refuses withdrawals
WithdrawalAllowed_unlessLocked(acct, amount) ==
  ~acct.locked /\ acct.funds_available >= amount

\* the funds test left out
WithdrawalAllowed_unchecked(acct, amount) == TRUE

\* the comparison made strict
WithdrawalAllowed_strict(acct, amount) == acct.funds_available > amount

\* if account_ref.funds_available >= amount
WithdrawalAllowed(acct, amount) == acct.funds_available >= amount

\* funds_available -= amount; funds_total -= amount
WithdrawFunds(acct, amount) ==
  [acct EXCEPT !.funds_available = @ - amount, !.funds_total = @ - amount]

\* the status test inverted to "not under dispute"
CanDispute_notDisputed(orig, t) ==
  orig.status # "Disputed" /\ orig.client_id = t.client_id

\* the status test left out
CanDispute_anyStatus(orig, t) == orig.client_id = t.client_id

\* the owner test left out
CanDispute_anyClient(orig, t) == orig.status = "OK"

\* orig_txt.status == OK && orig_txt.client_id == transaction.client_id
CanDispute(orig, t) == orig.status = "OK" /\ orig.client_id = t.client_id

\* a dispute that takes the funds from available but does not hold them
DisputeFunds_notHeld(acct, amount) ==
  [acct EXCEPT !.funds_available = @ - amount]

\* funds_available -= amount; funds_held += amount
DisputeFunds(acct, amount) ==
  [acct EXCEPT !.funds_available = @ - amount, !.funds_held = @ + amount]

\* orig_txt.status == Disputed && orig_txt.client_id == transaction.client_id
CanResolve(orig, t) == orig.status = "Disputed" /\ orig.client_id = t.client_id

\* a resolve that releases the funds but keeps them held
ResolveFunds_keepsHeld(acct, amount) ==
  [acct EXCEPT !.funds_available = @ + amount]

\* funds_available += amount; funds_held -= amount
ResolveFunds(acct, amount) ==
  [acct EXCEPT !.funds_available = @ + amount, !.funds_held = @ - amount]

\* the owner test left out
CanChargeback_anyClient(orig, t) == orig.status = "Disputed"

\* orig_txt.status == Disputed && orig_txt.client_id == transaction.client_id
CanChargeback(orig, t) == orig.status = "Disputed" /\ orig.client_id = t.client_id

\* a chargeback that forgets to freeze the account
ChargebackFunds_noLock(acct, amount) ==
  [acct EXCEPT !.funds_available = @ + amount, !.funds_held = @ - amount]

\* funds_available += amount; funds_held -= amount; locked = true
ChargebackFunds(acct, amount) ==
  [acct EXCEPT !.funds_available = @ + amount, !.funds_held = @ - amount,
               !.locked = TRUE]

\* what one call leaves behind; panic = the call did not return
Outcome(accts, txs, panic) ==
  [accounts |-> accts, transactions |-> txs, panic |-> panic]

\* the Deposit arm; accts already carries the counted transaction
DepositArm(accts, txs, t) ==
  IF ~DepositAssert(txs, t) THEN Outcome(accts, txs, TRUE)
  ELSE IF t.amount = None THEN Outcome(accts, txs, TRUE)
  ELSE Outcome([accts EXCEPT ![t.client_id] = DepositFunds(@, unwrap(t.amount))],
               InsertTransaction(txs, t), FALSE)

\* a Withdrawal arm that stores the withdrawal under its tx_id as well
WithdrawalArm_stores(accts, txs, t) ==
  IF t.amount = None THEN Outcome(accts, txs, TRUE)
  ELSE IF WithdrawalAllowed(accts[t.client_id], unwrap(t.amount))
  THEN Outcome([accts EXCEPT ![t.client_id] = WithdrawFunds(@, unwrap(t.amount))],
               InsertTransaction(txs, t), FALSE)
  ELSE Outcome(accts, txs, FALSE)

\* the Withdrawal arm
WithdrawalArm(accts, txs, t) ==
  IF t.amount = None THEN Outcome(accts, txs, TRUE)
  ELSE IF WithdrawalAllowed(accts[t.client_id], unwrap(t.amount))
  THEN Outcome([accts EXCEPT ![t.client_id] = WithdrawFunds(@, unwrap(t.amount))],
               txs, FALSE)
  ELSE Outcome(accts, txs, FALSE)

\* the Dispute arm
DisputeArm(accts, txs, t) ==
  IF t.tx_id \in DOMAIN txs /\ CanDispute(txs[t.tx_id], t)
  THEN Outcome([accts EXCEPT ![t.client_id] =
                  DisputeFunds(@, unwrap(txs[t.tx_id].amount))],
               [txs EXCEPT ![t.tx_id].status = "Disputed"], FALSE)
  ELSE Outcome(accts, txs, FALSE)

\* the Resolve arm
ResolveArm(accts, txs, t) ==
  IF t.tx_id \in DOMAIN txs /\ CanResolve(txs[t.tx_id], t)
  THEN Outcome([accts EXCEPT ![t.client_id] =
                  ResolveFunds(@, unwrap(txs[t.tx_id].amount))],
               [txs EXCEPT ![t.tx_id].status = "OK"], FALSE)
  ELSE Outcome(accts, txs, FALSE)

\* the Chargeback arm
ChargebackArm(accts, txs, t) ==
  IF t.tx_id \in DOMAIN txs /\ CanChargeback(txs[t.tx_id], t)
  THEN Outcome([accts EXCEPT ![t.client_id] =
                  ChargebackFunds(@, unwrap(txs[t.tx_id].amount))],
               [txs EXCEPT ![t.tx_id].status = "Chargedback"], FALSE)
  ELSE Outcome(accts, txs, FALSE)

\* process_transaction: count the transaction, then match on its type
process_transaction(accts, txs, t) ==
  LET counted == [accts EXCEPT ![t.client_id] = CountTransaction(@)]
  IN CASE t.tx_type = "Deposit" -> DepositArm(counted, txs, t)
       [] t.tx_type = "Withdrawal" -> WithdrawalArm(counted, txs, t)
       [] t.tx_type = "Dispute" -> DisputeArm(counted, txs, t)
       [] t.tx_type = "Resolve" -> ResolveArm(counted, txs, t)
       [] t.tx_type = "Chargeback" -> ChargebackArm(counted, txs, t)

\* ------------------------------------------------------------ import_csv
\* the insert without the contains_key test: a seen client starts afresh
CreateAccount_always(accts, c) ==
  [k \in DOMAIN accts \cup {c} |-> IF k = c THEN NewAccount(c) ELSE accts[k]]

\* if !self.accounts.contains_key(&client_id) { insert a fresh account }
CreateAccount(accts, c) ==
  IF c \in DOMAIN accts THEN accts
  ELSE [k \in DOMAIN accts \cup {c} |-> IF k = c THEN NewAccount(c) ELSE accts[k]]

\* one iteration of the loop of import_csv over a well-formed record
ImportRecord(t) ==
  LET r == process_transaction(CreateAccount(accounts, t.client_id), transactions, t)
  IN /\ num_records < MaxRecords
     /\ accounts' = r.accounts
     /\ transactions' = r.transactions
     /\ pc' = IF r.panic THEN "panicked" ELSE "import"
     /\ transaction' = t
     /\ num_records' = num_records + 1
     /\ prev_accounts' = accounts
     /\ prev_transactions' = transactions
     /\ UNCHANGED <<error, output, record, result>>

Deposit(c, id, amt) ==
  /\ pc = "import"
  /\ ImportRecord(NewTransaction("Deposit", c, id, amt))

Withdrawal(c, id, amt) ==
  /\ pc = "import"
  /\ ImportRecord(NewTransaction("Withdrawal", c, id, amt))

\* dispute, resolve and chargeback records carry no amount; the arms never
\* read the field
Dispute(c, id) ==
  /\ pc = "import"
  /\ ImportRecord(NewTransaction("Dispute", c, id, None))

Resolve(c, id) ==
  /\ pc = "import"
  /\ ImportRecord(NewTransaction("Resolve", c, id, None))

Chargeback(c, id) ==
  /\ pc = "import"
  /\ ImportRecord(NewTransaction("Chargeback", c, id, None))

\* the summary printed although import_csv returned Err
RecordError_exports ==
  /\ pc = "import"
  /\ pc' = "failed"
  /\ error' = "ImportCsv"
  /\ output' = <<"client,available,held,total,locked",
                 {<<accounts[c].client_id, accounts[c].funds_available,
                    accounts[c].funds_held, accounts[c].funds_total,
                    accounts[c].locked>> : c \in DOMAIN accounts}>>
  /\ UNCHANGED <<accounts, transactions, transaction, num_records,
                 prev_accounts, prev_transactions, record, result>>

\* rdr.records() yields Err: `result?` makes import_csv return Err, main maps
\* it to PaymentErrors::ImportCsv and returns before export_accounts
RecordError ==
  /\ pc = "import"
  /\ pc' = "failed"
  /\ error' = "ImportCsv"
  /\ UNCHANGED <<accounts, transactions, transaction, num_records,
                 prev_accounts, prev_transactions, output,
                 record, result>>

\* a record of the wrong length, with an unknown type or an unparsable
\* client, tx or amount: the assert! or an unwrap() panics
RecordPanic ==
  /\ pc = "import"
  /\ pc' = "panicked"
  /\ UNCHANGED <<accounts, transactions, transaction, num_records,
                 prev_accounts, prev_transactions, error, output,
                 record, result>>

\* ------------------------------------------------------- export_accounts
Header == "client,available,held,total,locked"

Row(acct) ==
  <<acct.client_id, acct.funds_available, acct.funds_held, acct.funds_total,
    acct.locked>>

\* println! of the header, then of one row per key of self.accounts; the
\* order of HashMap::keys() is arbitrary, so the rows are kept as a set
export_accounts(accts) == <<Header, {Row(accts[c]) : c \in DOMAIN accts}>>

\* the reader is exhausted: import_csv returns Ok and main exports
EndOfInput ==
  /\ pc = "import"
  /\ output' = export_accounts(accounts)
  /\ pc' = "done"
  /\ UNCHANGED <<accounts, transactions, transaction, num_records,
                 prev_accounts, prev_transactions, error,
                 record, result>>

\* ------------------------------------------------------------------ main
\* args.len() != 2
WrongArgumentCount ==
  /\ pc = "main"
  /\ pc' = "failed"
  /\ error' = "WrongArgumentCount"
  /\ UNCHANGED <<accounts, transactions, transaction, num_records,
                 prev_accounts, prev_transactions, output,
                 record, result>>

\* Reader::from_path(filename)? fails
OpenFails ==
  /\ pc = "main"
  /\ pc' = "failed"
  /\ error' = "ImportCsv"
  /\ UNCHANGED <<accounts, transactions, transaction, num_records,
                 prev_accounts, prev_transactions, output,
                 record, result>>

\* Reader::from_path(filename)? succeeds
OpenCsv ==
  /\ pc = "main"
  /\ pc' = "import"
  /\ UNCHANGED <<accounts, transactions, transaction, num_records,
                 prev_accounts, prev_transactions, error, output,
                 record, result>>

Next ==
  \/ WrongArgumentCount
  \/ OpenFails
  \/ OpenCsv
  \/ \E c \in ClientIds, id \in TransactionIds, amt \in OptDecimals : Deposit(c, id, amt)
  \/ \E c \in ClientIds, id \in TransactionIds, amt \in OptDecimals : Withdrawal(c, id, amt)
  \/ \E c \in ClientIds, id \in TransactionIds : Dispute(c, id)
  \/ \E c \in ClientIds, id \in TransactionIds : Resolve(c, id)
  \/ \E c \in ClientIds, id \in TransactionIds : Chargeback(c, id)
  \/ RecordError
  \/ RecordPanic
  \/ EndOfInput

Spec == Init /\ [][Next]_vars

\* the same program on inputs whose amounts are all zero or more
NonNegOptDecimals == {None} \cup {Some(v) : v \in 0..MaxAmount}

NextNonNeg ==
  \/ WrongArgumentCount
  \/ OpenFails
  \/ OpenCsv
  \/ \E c \in ClientIds, id \in TransactionIds, amt \in NonNegOptDecimals :
       Deposit(c, id, amt)
  \/ \E c \in ClientIds, id \in TransactionIds, amt \in NonNegOptDecimals :
       Withdrawal(c, id, amt)
  \/ \E c \in ClientIds, id \in TransactionIds : Dispute(c, id)
  \/ \E c \in ClientIds, id \in TransactionIds : Resolve(c, id)
  \/ \E c \in ClientIds, id \in TransactionIds : Chargeback(c, id)
  \/ RecordError
  \/ RecordPanic
  \/ EndOfInput

SpecNonNeg == Init /\ [][NextNonNeg]_vars

\* ------------------------------------------------ Transaction::try_from
\* A StringRecord is a sequence of fields.  The type field is matched whole
\* against string literals and is kept as a string; the other fields are
\* trimmed and parsed, and are sequences of characters.
DecimalPlaces == 4

DigitValue ==
  [ch \in {"0", "1", "2", "3", "4", "5", "6", "7", "8", "9"} |->
     CASE ch = "0" -> 0 [] ch = "1" -> 1 [] ch = "2" -> 2 [] ch = "3" -> 3
       [] ch = "4" -> 4 [] ch = "5" -> 5 [] ch = "6" -> 6 [] ch = "7" -> 7
       [] ch = "8" -> 8 [] ch = "9" -> 9]

IsDigit(ch) == ch \in DOMAIN DigitValue
IsSpace(ch) == ch = " "

RECURSIVE TrimStart(_)
TrimStart(s) == IF s # <<>> /\ IsSpace(Head(s)) THEN TrimStart(Tail(s)) ELSE s

RECURSIVE TrimEnd(_)
TrimEnd(s) ==
  IF s # <<>> /\ IsSpace(s[Len(s)]) THEN TrimEnd(SubSeq(s, 1, Len(s) - 1)) ELSE s

\* str::trim
trim(s) == TrimEnd(TrimStart(s))

AllDigits(s) == \A i \in DOMAIN s : IsDigit(s[i])

RECURSIVE StripZeros(_)
StripZeros(s) == IF Len(s) > 1 /\ Head(s) = "0" THEN StripZeros(Tail(s)) ELSE s

RECURSIVE DigitsAfter(_, _)
\* equally long digit strings: a comes after b
DigitsAfter(a, b) ==
  /\ a # <<>>
  /\ \/ DigitValue[Head(a)] > DigitValue[Head(b)]
     \/ Head(a) = Head(b) /\ DigitsAfter(Tail(a), Tail(b))

\* the number a is greater than the number b (no leading zeros in either)
Exceeds(a, b) == Len(a) > Len(b) \/ (Len(a) = Len(b) /\ DigitsAfter(a, b))

RECURSIVE DigitsToNat(_)
DigitsToNat(s) ==
  IF s = <<>> THEN 0
  ELSE 10 * DigitsToNat(SubSeq(s, 1, Len(s) - 1)) + DigitValue[s[Len(s)]]

\* u16::MAX and u32::MAX, as digits
U16Max == <<"6", "5", "5", "3", "5">>
U32Max == <<"4", "2", "9", "4", "9", "6", "7", "2", "9", "5">>

ParseOk(v) == [ok |-> TRUE, value |-> v]
ParseErr == [ok |-> FALSE, value |-> <<>>]

\* str::parse::<ClientId>() and ::<TransactionId>(): an optional '+', then
\* one digit or more, and the number must fit the type
ParseUnsigned(s, max) ==
  LET body == IF s # <<>> /\ Head(s) = "+" THEN Tail(s) ELSE s
  IN IF body = <<>> \/ ~AllDigits(body) \/ Exceeds(StripZeros(body), max)
     THEN ParseErr
     ELSE ParseOk(DigitsToNat(body))

Pow10(n) == CASE n = 0 -> 1 [] n = 1 -> 10 [] n = 2 -> 100 [] n = 3 -> 1000
              [] n = 4 -> 10000

\* Decimal::from_str on the forms the input format allows: an optional sign,
\* digits, and at most one point followed by at most DecimalPlaces digits.
\* The value counts units of 10^-DecimalPlaces, so 1.0 and 1.00 are equal as
\* the Decimals are.
ParseDecimal(s) ==
  LET negative == s # <<>> /\ Head(s) = "-"
      body == IF s # <<>> /\ Head(s) \in {"-", "+"} THEN Tail(s) ELSE s
      points == {i \in DOMAIN body : body[i] = "."}
      point == IF points = {} THEN Len(body) + 1 ELSE CHOOSE i \in points : TRUE
      whole == SubSeq(body, 1, point - 1)
      frac == SubSeq(body, point + 1, Len(body))
      units == DigitsToNat(whole \o frac) * Pow10(DecimalPlaces - Len(frac))
  IN IF Cardinality(points) > 1 \/ whole \o frac = <<>> \/ ~AllDigits(whole \o frac)
     THEN ParseErr
     ELSE ParseOk(IF negative THEN 0 - units ELSE units)

\* the match on the type string swapped for dispute and resolve
TypeOfString_swapped ==
  [ty \in {"deposit", "withdrawal", "dispute", "resolve", "chargeback"} |->
     CASE ty = "deposit" -> "Deposit"
       [] ty = "withdrawal" -> "Withdrawal"
       [] ty = "dispute" -> "Resolve"
       [] ty = "resolve" -> "Dispute"
       [] ty = "chargeback" -> "Chargeback"]

\* the match on the type string
TypeOfString ==
  [ty \in {"deposit", "withdrawal", "dispute", "resolve", "chargeback"} |->
     CASE ty = "deposit" -> "Deposit"
       [] ty = "withdrawal" -> "Withdrawal"
       [] ty = "dispute" -> "Dispute"
       [] ty = "resolve" -> "Resolve"
       [] ty = "chargeback" -> "Chargeback"]

\* the three ways a call ends: Ok(transaction), Err(message), or a panic in
\* one of the unwrap() calls
OkResult(t) == [kind |-> "Ok", value |-> t]
ErrResult(msg) == [kind |-> "Err", value |-> msg]
PanicResult == [kind |-> "panic", value |-> <<>>]

\* match record.get(3) { None => None, Some("") => None,
\*                       Some(something) => Some(from_str(trim).unwrap()) }
ParseAmount(rec) ==
  IF Len(rec) < 4 THEN ParseOk(None)
  ELSE IF rec[4] = <<>> THEN ParseOk(None)
  ELSE LET d == ParseDecimal(trim(rec[4]))
       IN IF d.ok THEN ParseOk(Some(d.value)) ELSE ParseErr

\* derive(PartialEq) on struct Transaction
TransactionEq(a, b) ==
  /\ a.tx_type = b.tx_type
  /\ a.client_id = b.client_id
  /\ a.tx_id = b.tx_id
  /\ a.amount = b.amount
  /\ a.status = b.status

\* Transaction::try_from(record)
try_from(rec) ==
  IF Len(rec) < 1 THEN PanicResult
  ELSE IF rec[1] \notin DOMAIN TypeOfString
  THEN ErrResult("Unknown transaction type")
  ELSE IF Len(rec) < 3 THEN PanicResult
  ELSE LET client == ParseUnsigned(trim(rec[2]), U16Max)
           tx == ParseUnsigned(trim(rec[3]), U32Max)
           amount == ParseAmount(rec)
       IN IF ~client.ok \/ ~tx.ok \/ ~amount.ok THEN PanicResult
          ELSE OkResult(NewTransaction(TypeOfString[rec[1]], client.value,
                                       tx.value, amount.value))

\* the records try_from is tried on
TypeFields ==
  {"deposit", "withdrawal", "dispute", "resolve", "chargeback",
   "refund", "Deposit", ""}
ClientFields == {<<"1">>,
                 <<" ", "2">>,
                 <<"6", "5", "5", "3", "5">>,
                 <<"6", "5", "5", "3", "6">>,
                 <<"x">>,
                 <<>>}
TxFields == {<<"1">>,
             <<"7", " ">>,
             <<"4", "2", "9", "4", "9", "6", "7", "2", "9", "6">>,
             <<"-", "1">>}
AmountFields == {<<>>,
                 <<"1", ".", "0">>,
                 <<"1", ".", "0", "0">>,
                 <<"2">>,
                 <<"0", ".", "0", "0", "0", "1">>,
                 <<" ", "1", ".", "5">>,
                 <<"-", "1", ".", "0">>,
                 <<"a", "b", "c">>,
                 <<" ">>}

StringRecords ==
  {<<>>}
  \cup {<<ty>> : ty \in TypeFields}
  \cup {<<ty, c>> : ty \in TypeFields, c \in ClientFields}
  \cup {<<ty, c, id>> : ty \in TypeFields, c \in ClientFields, id \in TxFields}
  \cup {<<ty, c, id, a>> :
          ty \in TypeFields, c \in ClientFields, id \in TxFields, a \in AmountFields}

\* try_from run on its own, on any of the records
InitTryFrom ==
  /\ pc = "try_from"
  /\ accounts = EmptyMap
  /\ transactions = EmptyMap
  /\ transaction = NoTransaction
  /\ num_records = 0
  /\ prev_accounts = EmptyMap
  /\ prev_transactions = EmptyMap
  /\ error = "none"
  /\ output = <<>>
  /\ record \in StringRecords
  /\ result = NoResult

TryFrom ==
  /\ pc = "try_from"
  /\ result' = try_from(record)
  /\ pc' = "converted"
  /\ UNCHANGED <<accounts, transactions, transaction, num_records,
                 prev_accounts, prev_transactions, error, output, record>>

NextTryFrom == TryFrom

SpecTryFrom == InitTryFrom /\ [][NextTryFrom]_vars

\* ---------------------------------------------- vocabulary of the claims
\* the account of client c as process_transaction finds it: the stored one,
\* or the fresh one import_csv creates first
AccountOf(accts, c) == IF c \in DOMAIN accts THEN accts[c] ELSE NewAccount(c)

Funds(acct) ==
  <<acct.funds_available, acct.funds_held, acct.funds_total, acct.locked>>

\* available, held, total and locked of every client
FundsOf(accts) == [c \in ClientIds |-> Funds(AccountOf(accts, c))]

\* this step reads one record and hands it to process_transaction
ReadsRecord == num_records' = num_records + 1

\* (C1) Every account has funds_total = funds_available + funds_held in
\* every state of the run, whatever transactions were processed.
C1_TotalIsAvailablePlusHeld ==
  \A c \in DOMAIN accounts :
    accounts[c].funds_total = accounts[c].funds_available + accounts[c].funds_held

\* an account that holds disputed funds next to available ones
C1_Witness ==
  \E c \in DOMAIN accounts :
    /\ accounts[c].funds_held > 0
    /\ accounts[c].funds_available > 0
    /\ transaction.tx_type = "Dispute"

\* (C2) After exactly Deposit(1, 1, a), Dispute(1, 1), Chargeback(1, 1) on an
\* empty ledger, with a > 0, account 1 has available = 0, held = 0,
\* total = 0 and is locked.  Three records ending in a Chargeback that found
\* deposit 1 of client 1 Disputed can only be that sequence.
C2_ScenarioE ==
  ( /\ num_records = 3
    /\ transaction = NewTransaction("Chargeback", 1, 1, None)
    /\ 1 \in DOMAIN prev_transactions
    /\ prev_transactions[1].status = "Disputed"
    /\ prev_transactions[1].client_id = 1
    /\ unwrap(prev_transactions[1].amount) > 0 )
  => /\ accounts[1].funds_available = 0
     /\ accounts[1].funds_held = 0
     /\ accounts[1].funds_total = 0
     /\ accounts[1].locked

C4_LockedIsMonotone ==
  [][ \A c \in DOMAIN accounts :
        accounts[c].locked => (c \in DOMAIN accounts' /\ accounts'[c].locked) ]_vars

\* a locked account has had a further Deposit applied to it
C4_Witness ==
  /\ transaction.tx_type = "Deposit"
  /\ transaction.client_id \in DOMAIN prev_accounts
  /\ prev_accounts[transaction.client_id].locked
  /\ transaction.tx_id \in DOMAIN transactions
  /\ transaction.tx_id \notin DOMAIN prev_transactions

\* the last record is a Chargeback that met its three preconditions
ChargebackApplies ==
  /\ transaction.tx_type = "Chargeback"
  /\ transaction.tx_id \in DOMAIN prev_transactions
  /\ prev_transactions[transaction.tx_id].status = "Disputed"
  /\ prev_transactions[transaction.tx_id].client_id = transaction.client_id

\* (C5) A Chargeback whose referenced deposit R exists, is Disputed and
\* belongs to the same client sets R to Chargedback, adds R.amount to
\* available, takes it from held and locks the account; any other Chargeback
\* changes no funds, no locked flag and no stored status.
C5_ChargebackEffect ==
  transaction.tx_type = "Chargeback" =>
    LET c == transaction.client_id
        old == AccountOf(prev_accounts, c)
    IN IF ChargebackApplies
       THEN LET amount == unwrap(prev_transactions[transaction.tx_id].amount)
            IN /\ transactions[transaction.tx_id].status = "Chargedback"
               /\ accounts[c].funds_available = old.funds_available + amount
               /\ accounts[c].funds_held = old.funds_held - amount
               /\ accounts[c].locked
       ELSE /\ FundsOf(accounts) = FundsOf(prev_accounts)
            /\ transactions = prev_transactions

\* a Chargeback of a non-zero deposit was applied to an unlocked account
C5_Witness ==
  /\ ChargebackApplies
  /\ unwrap(prev_transactions[transaction.tx_id].amount) # 0
  /\ ~prev_accounts[transaction.client_id].locked

\* the statuses of the stored deposits
StatusOf(txs) == [id \in DOMAIN txs |-> txs[id].status]

\* (C6) A stored deposit's status only moves OK -> Disputed by a Dispute,
\* Disputed -> OK by a Resolve and Disputed -> Chargedback by a Chargeback,
\* each naming its tx_id; Chargedback is terminal: a Dispute, Resolve or
\* Chargeback on a Chargedback deposit changes no status and no funds.
C6_DisputeLifecycle ==
  [][ \A id \in DOMAIN transactions :
        /\ id \in DOMAIN transactions'
        /\ transactions'[id].status # transactions[id].status =>
             /\ ReadsRecord
             /\ transaction'.tx_id = id
             /\ <<transactions[id].status, transaction'.tx_type, transactions'[id].status>>
                  \in { <<"OK", "Dispute", "Disputed">>,
                        <<"Disputed", "Resolve", "OK">>,
                        <<"Disputed", "Chargeback", "Chargedback">> }
        /\ ( /\ transactions[id].status = "Chargedback"
             /\ ReadsRecord
             /\ transaction'.tx_id = id
             /\ transaction'.tx_type \in {"Dispute", "Resolve", "Chargeback"} )
           => /\ StatusOf(transactions') = StatusOf(transactions)
              /\ FundsOf(accounts') = FundsOf(accounts) ]_vars

\* the owner disputed a deposit that was already charged back
C6_Witness ==
  /\ transaction.tx_type = "Dispute"
  /\ transaction.tx_id \in DOMAIN prev_transactions
  /\ prev_transactions[transaction.tx_id].status = "Chargedback"
  /\ prev_transactions[transaction.tx_id].client_id = transaction.client_id
  /\ unwrap(prev_transactions[transaction.tx_id].amount) # 0

\* (C7) When the owning client disputes a stored deposit twice in a row, the
\* second Dispute changes no account's available, held, total or locked and
\* no stored status.
C7_SecondDisputeIgnored ==
  [][ ( /\ transaction.tx_type = "Dispute"
        /\ transaction' = transaction
        /\ ReadsRecord
        /\ transaction.tx_id \in DOMAIN transactions
        /\ transactions[transaction.tx_id].client_id = transaction.client_id )
      => /\ FundsOf(accounts') = FundsOf(accounts)
         /\ StatusOf(transactions') = StatusOf(transactions) ]_vars

\* Deposit, Dispute, Dispute: with three records read, a Dispute by the owner
\* that found the deposit already Disputed follows the Dispute that applied
C7_Witness ==
  /\ num_records = 3
  /\ transaction.tx_type = "Dispute"
  /\ transaction.tx_id \in DOMAIN prev_transactions
  /\ prev_transactions[transaction.tx_id].status = "Disputed"
  /\ prev_transactions[transaction.tx_id].client_id = transaction.client_id
  /\ unwrap(prev_transactions[transaction.tx_id].amount) # 0
  /\ pc = "import"

\* the state has just processed a Dispute, and this step processes a Resolve
\* by the same client on the same tx_id, stored before the Dispute
DisputeThenResolve ==
  /\ transaction.tx_type = "Dispute"
  /\ transaction.tx_id \in DOMAIN prev_transactions
  /\ ReadsRecord
  /\ transaction' = NewTransaction("Resolve", transaction.client_id, transaction.tx_id, None)

\* available, held of the client and status of the deposit are, after the
\* Resolve, what they were before the Dispute
RoundTripRestores ==
  LET c == transaction.client_id
      id == transaction.tx_id
  IN /\ accounts'[c].funds_available = AccountOf(prev_accounts, c).funds_available
     /\ accounts'[c].funds_held = AccountOf(prev_accounts, c).funds_held
     /\ transactions'[id].status = prev_transactions[id].status

\* before the Dispute the deposit was Disputed and the client owns it
AlreadyDisputedByOwner ==
  /\ prev_transactions[transaction.tx_id].status = "Disputed"
  /\ prev_transactions[transaction.tx_id].client_id = transaction.client_id

\* (C8) A Dispute on a stored deposit followed at once by a Resolve of the
\* same client on the same tx_id restores the client's available and held and
\* the deposit's status to their values before the Dispute, unless the deposit
\* was already Disputed and the client owns it: then the Dispute is ignored
\* and the Resolve ends the earlier dispute, so available grows by the
\* amount, held shrinks by it and the status becomes OK.
C8_DisputeResolveRoundTrip ==
  [][ DisputeThenResolve =>
        IF AlreadyDisputedByOwner
        THEN LET c == transaction.client_id
                 amount == unwrap(prev_transactions[transaction.tx_id].amount)
             IN /\ accounts'[c].funds_available = prev_accounts[c].funds_available + amount
                /\ accounts'[c].funds_held = prev_accounts[c].funds_held - amount
                /\ transactions'[transaction.tx_id].status = "OK"
        ELSE RoundTripRestores ]_vars

\* Deposit, Dispute, Resolve: with three records read, a Resolve by the owner
\* that found the deposit Disputed follows the Dispute that applied
C8_Witness ==
  /\ num_records = 3
  /\ transaction.tx_type = "Resolve"
  /\ transaction.tx_id \in DOMAIN prev_transactions
  /\ prev_transactions[transaction.tx_id].status = "Disputed"
  /\ prev_transactions[transaction.tx_id].client_id = transaction.client_id
  /\ unwrap(prev_transactions[transaction.tx_id].amount) # 0
  /\ transactions[transaction.tx_id].status = "OK"
  /\ accounts[transaction.client_id].funds_held = 0

\* (C8, as claimed) From any reachable state, a Dispute on a stored deposit
\* followed at once by a Resolve of the same client on the same tx_id
\* restores available, held and the status to their values before the Dispute.
C8_RoundTripFromAnyState ==
  [][ DisputeThenResolve => RoundTripRestores ]_vars

\* the last record is a Withdrawal with an amount
WithdrawalRead == transaction.tx_type = "Withdrawal" /\ transaction.amount # None

\* (C9) A Withdrawal of amount m is applied exactly when available >= m, and
\* then takes m from available and from total; when available < m the
\* account's available, held, total and locked are unchanged.  No Withdrawal
\* changes held or any stored transaction.
C9_WithdrawalEffect ==
  transaction.tx_type = "Withdrawal" =>
    LET c == transaction.client_id
        old == AccountOf(prev_accounts, c)
    IN /\ accounts[c].funds_held = old.funds_held
       /\ transactions = prev_transactions
       /\ WithdrawalRead =>
            LET m == unwrap(transaction.amount)
            IN IF old.funds_available >= m
               THEN /\ accounts[c].funds_available = old.funds_available - m
                    /\ accounts[c].funds_total = old.funds_total - m
                    /\ accounts[c].locked = old.locked
               ELSE Funds(accounts[c]) = Funds(old)

\* a Withdrawal of exactly the available funds was applied
C9_Witness ==
  /\ WithdrawalRead
  /\ transaction.client_id \in DOMAIN prev_accounts
  /\ unwrap(transaction.amount) > 0
  /\ prev_accounts[transaction.client_id].funds_available = unwrap(transaction.amount)
  /\ accounts[transaction.client_id].funds_available = 0

\* the last record is a Deposit with an amount whose tx_id was not stored
NewDepositRead ==
  /\ transaction.tx_type = "Deposit"
  /\ transaction.amount # None
  /\ transaction.tx_id \notin DOMAIN prev_transactions

\* (C10) A Deposit with a tx_id not yet stored adds its amount to the owning
\* account's available and total, leaves held and locked as they were, and
\* stores the transaction under its tx_id with status OK and the depositing
\* client's id.
C10_DepositEffect ==
  NewDepositRead =>
    LET c == transaction.client_id
        old == AccountOf(prev_accounts, c)
        amount == unwrap(transaction.amount)
    IN /\ accounts[c].funds_available = old.funds_available + amount
       /\ accounts[c].funds_total = old.funds_total + amount
       /\ accounts[c].funds_held = old.funds_held
       /\ accounts[c].locked = old.locked
       /\ transaction.tx_id \in DOMAIN transactions
       /\ transactions[transaction.tx_id].status = "OK"
       /\ transactions[transaction.tx_id].client_id = c
       /\ transactions[transaction.tx_id].amount = transaction.amount

\* a Deposit was applied to an account that already held disputed funds
C10_Witness ==
  /\ NewDepositRead
  /\ unwrap(transaction.amount) > 0
  /\ transaction.client_id \in DOMAIN prev_accounts
  /\ prev_accounts[transaction.client_id].funds_held > 0

\* the last record is a Dispute, Resolve or Chargeback
DisputeFamilyRead == transaction.tx_type \in {"Dispute", "Resolve", "Chargeback"}

\* (C11) A Dispute, Resolve or Chargeback whose client_id differs from the
\* client_id of the stored deposit it names is ignored: no stored transaction
\* changes and no account changes in available, held, total or locked.
C11_WrongClientIgnored ==
  ( /\ DisputeFamilyRead
    /\ transaction.tx_id \in DOMAIN prev_transactions
    /\ prev_transactions[transaction.tx_id].client_id # transaction.client_id )
  => /\ transactions = prev_transactions
     /\ FundsOf(accounts) = FundsOf(prev_accounts)

\* a client disputed another client's undisputed, non-zero deposit
C11_Witness ==
  /\ transaction.tx_type = "Dispute"
  /\ transaction.tx_id \in DOMAIN prev_transactions
  /\ prev_transactions[transaction.tx_id].client_id # transaction.client_id
  /\ prev_transactions[transaction.tx_id].status = "OK"
  /\ unwrap(prev_transactions[transaction.tx_id].amount) # 0

\* (C12) The first transaction naming a client not yet in the account table
\* creates the account with available = held = total = 0 and locked = false
\* and is then applied to it: a Dispute, Resolve or Chargeback (whose tx_id
\* an unseen client cannot own) leaves the zeros, a new Deposit of a adds a
\* to available and total, a Withdrawal of m <= 0 takes m from them, and
\* anything else leaves the zeros.
C12_FirstTransactionCreatesAccount ==
  ( /\ transaction # NoTransaction
    /\ transaction.client_id \notin DOMAIN prev_accounts )
  => LET c == transaction.client_id
     IN /\ c \in DOMAIN accounts
        /\ accounts[c].client_id = c
        /\ Funds(accounts[c]) =
             IF NewDepositRead
             THEN <<unwrap(transaction.amount), 0, unwrap(transaction.amount), FALSE>>
             ELSE IF WithdrawalRead /\ 0 >= unwrap(transaction.amount)
             THEN <<0 - unwrap(transaction.amount), 0, 0 - unwrap(transaction.amount), FALSE>>
             ELSE <<0, 0, 0, FALSE>>

\* a client seen for the first time disputed a tx_id that was never stored,
\* while another client already had an account
C12_Witness ==
  /\ transaction.tx_type = "Dispute"
  /\ transaction.client_id \notin DOMAIN prev_accounts
  /\ transaction.tx_id \notin DOMAIN prev_transactions
  /\ DOMAIN prev_accounts # {}
  /\ transaction.client_id \in DOMAIN accounts

RECURSIVE SumOfCounts(_, _)
\* the sum of num_transactions over the accounts of the clients in S
SumOfCounts(accts, S) ==
  IF S = {} THEN 0
  ELSE LET c == CHOOSE x \in S : TRUE
       IN accts[c].num_transactions + SumOfCounts(accts, S \ {c})

C14_StoredTransactionKept ==
  [][ \A id \in DOMAIN transactions :
        /\ id \in DOMAIN transactions'
        /\ [transactions'[id] EXCEPT !.status = "OK"]
             = [transactions[id] EXCEPT !.status = "OK"] ]_vars

\* a Withdrawal carrying the tx_id of a stored deposit was applied
C14_Witness ==
  /\ WithdrawalRead
  /\ transaction.tx_id \in DOMAIN prev_transactions
  /\ unwrap(transaction.amount) > 0
  /\ accounts[transaction.client_id].funds_available
       = AccountOf(prev_accounts, transaction.client_id).funds_available
           - unwrap(transaction.amount)

RECURSIVE Show(_)
\* the decimal digits of a natural number
Show(n) ==
  LET digit == <<"0", "1", "2", "3", "4", "5", "6", "7", "8", "9">>[(n % 10) + 1]
  IN IF n < 10 THEN <<digit>> ELSE Show(n \div 10) \o <<digit>>

\* the amounts the amount fields of the records stand for, in units of 0.0001
AmountOfField(a) ==
  CASE a = <<"1", ".", "0">> -> 10000
    [] a = <<"1", ".", "0", "0">> -> 10000
    [] a = <<"2">> -> 20000
    [] a = <<"0", ".", "0", "0", "0", "1">> -> 1
    [] a = <<" ", "1", ".", "5">> -> 15000
    [] a = <<"-", "1", ".", "0">> -> 0 - 10000

\* (C15) try_from maps the type strings deposit, withdrawal, dispute, resolve
\* and chargeback to the five transaction types in that order, copies the
\* client id, the tx id and the amount, leaves the amount absent when the
\* fourth field is missing or empty, sets the status to OK, and returns the
\* error for any other type string; transactions that differ only in their
\* type are unequal.  Record ("deposit", "1", "1", "1.0") gives the Deposit
\* of 1.0 by client 1 under tx 1.
C15_RecordToTransaction ==
  pc = "converted" =>
    /\ Len(record) >= 1 =>
         ( record[1] \notin {"deposit", "withdrawal", "dispute", "resolve", "chargeback"}
           <=> result = ErrResult("Unknown transaction type") )
    /\ result.kind = "Ok" =>
         LET t == result.value
         IN /\ record[1] = "deposit" => t.tx_type = "Deposit"
            /\ record[1] = "withdrawal" => t.tx_type = "Withdrawal"
            /\ record[1] = "dispute" => t.tx_type = "Dispute"
            /\ record[1] = "resolve" => t.tx_type = "Resolve"
            /\ record[1] = "chargeback" => t.tx_type = "Chargeback"
            /\ Show(t.client_id) = trim(record[2])
            /\ Show(t.tx_id) = trim(record[3])
            /\ t.amount = None <=> (Len(record) < 4 \/ record[4] = <<>>)
            /\ t.amount # None => unwrap(t.amount) = AmountOfField(record[4])
            /\ t.status = "OK"
            /\ \A ty \in TransactionType \ {t.tx_type} :
                 ~TransactionEq(t, [t EXCEPT !.tx_type = ty])
    /\ record = <<"deposit", <<"1">>, <<"1">>, <<"1", ".", "0">>>> =>
         /\ result = OkResult([tx_type |-> "Deposit", client_id |-> 1, tx_id |-> 1,
                               amount |-> Some(10000), status |-> "OK"])
         /\ ~TransactionEq(result.value,
                           [tx_type |-> "Withdrawal", client_id |-> 1, tx_id |-> 1,
                            amount |-> Some(10000), status |-> "OK"])

\* a resolve record without an amount field, its ids padded with blanks,
\* became a Resolve transaction
C15_Witness ==
  /\ pc = "converted"
  /\ record = <<"resolve", <<" ", "2">>, <<"7", " ">>>>
  /\ result.kind = "Ok"
  /\ result.value.tx_type = "Resolve"
  /\ result.value.amount = None

\* available, held and total of an account
Balances(acct) == <<acct.funds_available, acct.funds_held, acct.funds_total>>

\* (C16) A transaction that finds its account locked leaves the same
\* available, held and total in it, and the same stored transactions, as it
\* would have left had the account been identical but not locked.
C16_LockedNotSpecialCased ==
  ( /\ transaction # NoTransaction
    /\ transaction.client_id \in DOMAIN prev_accounts
    /\ prev_accounts[transaction.client_id].locked )
  => LET c == transaction.client_id
         unlocked == [prev_accounts EXCEPT ![c].locked = FALSE]
         twin == process_transaction(unlocked, prev_transactions, transaction)
     IN /\ Balances(accounts[c]) = Balances(twin.accounts[c])
        /\ transactions = twin.transactions

\* a Withdrawal took funds out of a locked account
C16_Witness ==
  /\ WithdrawalRead
  /\ transaction.client_id \in DOMAIN prev_accounts
  /\ prev_accounts[transaction.client_id].locked
  /\ unwrap(transaction.amount) > 0
  /\ accounts[transaction.client_id].funds_available
       = prev_accounts[transaction.client_id].funds_available
           - unwrap(transaction.amount)

\* (C17) Processing a transaction of client c leaves the account of every
\* other client unchanged in all its fields, and changes the status of a
\* stored deposit only if the deposit is c's.
C17_OtherClientsUntouched ==
  transaction # NoTransaction =>
    /\ \A other \in DOMAIN accounts \ {transaction.client_id} :
         other \in DOMAIN prev_accounts /\ accounts[other] = prev_accounts[other]
    /\ \A id \in DOMAIN prev_transactions :
         transactions[id].status # prev_transactions[id].status
           => prev_transactions[id].client_id = transaction.client_id

\* a client's Dispute was applied while another client had funds and a
\* stored deposit of its own
C17_Witness ==
  /\ transaction.tx_type = "Dispute"
  /\ transaction.tx_id \in DOMAIN prev_transactions
  /\ prev_transactions[transaction.tx_id].status = "OK"
  /\ transactions[transaction.tx_id].status = "Disputed"
  /\ \E other \in DOMAIN prev_accounts \ {transaction.client_id} :
       /\ prev_accounts[other].funds_available > 0
       /\ \E id \in DOMAIN prev_transactions : prev_transactions[id].client_id = other

\* (C18) The summary is printed only when every record was processed: in a
\* run that failed or panicked, and while records are still read, nothing is
\* printed; a run that succeeds prints the header and exactly one row for
\* each client that appeared in the input, and no other row.
C18_OutputOnlyOnSuccess ==
  /\ pc # "done" => output = <<>>
  /\ pc = "failed" => error \in {"WrongArgumentCount", "ImportCsv"}
  /\ pc = "done" =>
       /\ error = "none"
       /\ Len(output) = 2
       /\ output[1] = "client,available,held,total,locked"
       /\ \A c \in DOMAIN accounts :
            Cardinality({row \in output[2] : row[1] = c}) = 1
       /\ \A row \in output[2] : row[1] \in DOMAIN accounts
       /\ transaction # NoTransaction =>
            \E row \in output[2] : row[1] = transaction.client_id

\* a run over records of two clients, one of them locked, ended and printed
C18_Witness ==
  /\ pc = "done"
  /\ Cardinality(output[2]) = 2
  /\ \E row \in output[2] : row[5]
  /\ \E row \in output[2] : ~row[5]

RECURSIVE SumOfAmounts(_, _)
\* the sum of the amounts of the stored deposits with the tx_ids in S
SumOfAmounts(txs, S) ==
  IF S = {} THEN 0
  ELSE LET id == CHOOSE x \in S : TRUE
       IN unwrap(txs[id].amount) + SumOfAmounts(txs, S \ {id})

\* the tx_ids of the deposits of client c that are under dispute
DisputedOf(c) ==
  {id \in DOMAIN transactions :
     transactions[id].client_id = c /\ transactions[id].status = "Disputed"}

\* (C19) Every account's held is the sum of the amounts of the client's
\* stored deposits that are Disputed; so it is zero when none is, and it is
\* not negative when no stored deposit has a negative amount.
C19_HeldIsSumOfDisputed ==
  \A c \in DOMAIN accounts :
    /\ accounts[c].funds_held = SumOfAmounts(transactions, DisputedOf(c))
    /\ DisputedOf(c) = {} => accounts[c].funds_held = 0
    /\ (\A id \in DOMAIN transactions : unwrap(transactions[id].amount) >= 0)
         => accounts[c].funds_held >= 0

\* a client with one deposit under dispute and another that is not
C19_Witness ==
  \E c \in DOMAIN accounts :
    /\ accounts[c].funds_held > 0
    /\ DisputedOf(c) # {}
    /\ \E id \in DOMAIN transactions \ DisputedOf(c) :
         transactions[id].client_id = c /\ unwrap(transactions[id].amount) > 0

\* (C20) On inputs without negative amounts no account's total is ever
\* negative, so available is never below -held, and it is not negative while
\* none of the client's deposits is under dispute.
C20_AvailableAtLeastMinusHeld ==
  \A c \in DOMAIN accounts :
    /\ accounts[c].funds_total >= 0
    /\ accounts[c].funds_available >= 0 - accounts[c].funds_held
    /\ DisputedOf(c) = {} => accounts[c].funds_available >= 0

\* a deposit was disputed after part of it had been withdrawn
C20_Witness ==
  /\ transaction.tx_type = "Dispute"
  /\ accounts[transaction.client_id].funds_available < 0
  /\ prev_accounts[transaction.client_id].funds_available > 0
  /\ DisputedOf(transaction.client_id) = {transaction.tx_id}

\* (C20, as claimed) On inputs without negative amounts no account's
\* available is negative in any reachable state.
C20_AvailableNeverNegative ==
  \A c \in DOMAIN accounts : accounts[c].funds_available >= 0

====
